---- MODULE Spec2Model ----
(***************************************************************************)
(* A model of the in-memory FUSE filesystem of src/src/main.rs and         *)
(* src/src/inode.rs: the inode store (tree), the inode counter, the        *)
(* file-handle table, and one action per request handler.                  *)
(*                                                                         *)
(* Strings (paths, names, file contents) are sequences of one-character    *)
(* strings, so that Path::join, Path::file_name and Path::strip_prefix can *)
(* be computed the way the code computes them.                             *)
(*                                                                         *)
(* A file handle is a u64 whose bit 63 is the read bit, bit 62 the write   *)
(* bit and bits 0..61 the per-inode counter.  It is kept as the record     *)
(* [num, rd, wr] of these three bit fields; allocate_file_handle asserts   *)
(* num < 2^62, so the fields never overlap.                                *)
(***************************************************************************)
EXTENDS Integers, Sequences, FiniteSets, Bags, TLC

VARIABLES
    tree,          \* TreeFilesystem.tree: inode number -> inode record
    cur_inode,     \* TreeFilesystem.cur_inode
    file_handles,  \* TreeFilesystem.file_handles: inode number -> counter
    clock,         \* logical time: the value SystemTime::now() last returned
    outstanding,   \* bag of handles replied by open/create and not yet released
    request,       \* the last request dispatched to a handler
    reply          \* the reply that handler issued

vars == <<tree, cur_inode, file_handles, clock, outstanding, request, reply>>

----------------------------------------------------------------------------
(* Bounds of the model.                                                    *)

\* Spec: how many requests that change the filesystem one run serves.
MaxClock == 2
\* SpecTree: create, symlink, unlink and rename are served up to TreeDepth
\* changes; write, setattr, open and release only as the first TreeOther.
TreeDepth == 3
TreeOther == 1
\* SpecFh: open and release on one file, up to FhDepth changes, after at
\* most FhCreate creates.
FhDepth == 4
FhCreate == 1

----------------------------------------------------------------------------
(* Program constants.                                                      *)

BLOCK_SIZE == 512
O_RDONLY == 0
O_WRONLY == 1
O_RDWR == 2
O_ACCMODE == 3
O_TRUNC == 512
FMODE_EXEC == 32
S_ISGID == 1024
U16 == 65536

\* x & b # 0 for a single-bit mask b
Bit(x, b) == (x \div b) % 2 = 1

\* x & !b for a single-bit mask b
ClearBit(x, b) == IF Bit(x, b) THEN x - b ELSE x

----------------------------------------------------------------------------
(* Strings.                                                                *)

Slash == "/"
RootPath == <<"/">>
Foo == <<"f", "o", "o">>
Answer == <<"a", "n", "s", "w", "e", "r">>
Bar == <<"b", "a", "r">>
FortyTwo == <<"4", "2">>
NewName == <<"x">>
Mountpoint == <<"/", "m">>

None == [none |-> TRUE]
Some(v) == [none |-> FALSE, val |-> v]

\* A join that adds a separator also after a base that ends in one.
JoinAlwaysSlash(base, p) ==
    IF Len(p) > 0 /\ p[1] = Slash THEN p
    ELSE base \o <<Slash>> \o p

\* PathBuf::push, as used by Path::join: an absolute argument replaces the
\* base; otherwise a separator is added unless the base already ends in one.
Join(base, p) ==
    IF Len(p) > 0 /\ p[1] = Slash THEN p
    ELSE IF Len(base) > 0 /\ base[Len(base)] # Slash THEN base \o <<Slash>> \o p
    ELSE base \o p

RECURSIVE StripTrailing(_)
StripTrailing(p) ==
    IF Len(p) > 0 /\ p[Len(p)] = Slash THEN StripTrailing(SubSeq(p, 1, Len(p) - 1))
    ELSE p

RECURSIVE LastSlash(_, _)
LastSlash(p, i) ==
    IF i = 0 THEN 0 ELSE IF p[i] = Slash THEN i ELSE LastSlash(p, i - 1)

\* Path::file_name: the final component, none for the root and for "..".
\* (Components "." do not occur in the paths of this model.)
FileName(path) ==
    LET q == StripTrailing(path)
        k == LastSlash(q, Len(q))
        last == SubSeq(q, k + 1, Len(q))
    IN  IF Len(q) = 0 \/ last = <<".", ".">> THEN None ELSE Some(last)

\* Path::strip_prefix("/"): none when the path is not absolute.
StripRoot(path) ==
    IF Len(path) > 0 /\ path[1] = Slash THEN Some(SubSeq(path, 2, Len(path)))
    ELSE None

(* Integer helpers *)
Min(a, b) == IF a < b THEN a ELSE b

----------------------------------------------------------------------------
(* Inodes (src/src/inode.rs).                                              *)

RegularFile == "RegularFile"
Directory == "Directory"
Symlink == "Symlink"

\* fuser::FileAttr as create_inode fills it (rdev and flags are always 0
\* and are left out).
FileAttr(ino, size, now, kind, perm, uid, gid) ==
    [ino |-> ino, size |-> size,
     blocks |-> (size + BLOCK_SIZE - 1) \div BLOCK_SIZE,
     atime |-> now, mtime |-> now, ctime |-> now, crtime |-> now,
     kind |-> kind, perm |-> perm, nlink |-> 1, uid |-> uid, gid |-> gid,
     blksize |-> BLOCK_SIZE]

FileInode(ino, attrs, path, data, parent, name) ==
    [variant |-> RegularFile, inode_num |-> ino, attrs |-> attrs, path |-> path,
     data |-> data, num_links |-> attrs.nlink, name |-> name, parent |-> parent]

DirectoryInode(ino, attrs, path, parent, name) ==
    [variant |-> Directory, inode_num |-> ino, attrs |-> attrs, path |-> path,
     contents |-> <<>>, num_links |-> attrs.nlink, parent |-> parent, name |-> name]

LinkInode(ino, attrs, path, target, parent, name, target_path) ==
    [variant |-> Symlink, inode_num |-> ino, attrs |-> attrs, path |-> path,
     target |-> target, name |-> name, parent |-> parent,
     num_links |-> attrs.nlink, target_path |-> target_path]

\* InodeTrait::target
target(inode) == IF inode.variant = Symlink THEN Some(inode.target) ELSE None

\* The accessors that are todo!() on the other variants.
HasContents(inode) == inode.variant = Directory
HasData(inode) == inode.variant = RegularFile

\* InodeTrait::get_symlink_data (called on links only)
get_symlink_data(inode) ==
    IF Len(inode.target_path) > 0 THEN Some(inode.target_path) ELSE None

----------------------------------------------------------------------------
(* The inode store: operators on a map t from inode numbers to inodes.     *)

\* BTreeMap::insert
set_inode(t, ino, inode) ==
    [i \in DOMAIN t \cup {ino} |-> IF i = ino THEN inode ELSE t[i]]

\* A removal that also resets to 0 the target of every link to the inode.
RemoveAndUnbind(t, ino) ==
    [i \in DOMAIN t \ {ino} |->
        IF t[i].variant = Symlink /\ t[i].target = ino
        THEN [t[i] EXCEPT !.target = 0]
        ELSE t[i]]

\* BTreeMap::remove
remove_inode(t, ino) == [i \in DOMAIN t \ {ino} |-> t[i]]

get_inode(t, ino) == IF ino \in DOMAIN t THEN Some(t[ino]) ELSE None

\* The first inode, in key order, whose stored path is the given one.
get_inode_by_path(t, path) ==
    LET hits == {i \in DOMAIN t : t[i].path = path}
    IN  IF hits = {} THEN None
        ELSE Some(t[CHOOSE i \in hits : \A j \in hits : i <= j])

Push(seq, x) == Append(seq, x)

\* iter().position(|v| *v == x): index of the first x, 0 when absent
RECURSIVE PositionFrom(_, _, _)
PositionFrom(seq, x, i) ==
    IF i > Len(seq) THEN 0
    ELSE IF seq[i] = x THEN i ELSE PositionFrom(seq, x, i + 1)
Position(seq, x) == PositionFrom(seq, x, 1)

\* Vec::remove(index)
RemoveAt(seq, i) == SubSeq(seq, 1, i - 1) \o SubSeq(seq, i + 1, Len(seq))

\* The block a creation helper shares: "Update the contents of the parent".
\* unwrap() on a missing parent and contents() on a non-directory abort.
ParentPushPanics(t, ino, parent) ==
    ino # 1 /\ (parent \notin DOMAIN t \/ ~HasContents(t[parent]))

\* A parent update that appends the new number twice.
PushToParentTwice(t, ino, parent) ==
    IF ino # 1
    THEN set_inode(t, parent,
                   [t[parent] EXCEPT !.contents = Push(Push(t[parent].contents, ino), ino)])
    ELSE t

PushToParent(t, ino, parent) ==
    IF ino # 1
    THEN set_inode(t, parent,
                   [t[parent] EXCEPT !.contents = Push(t[parent].contents, ino)])
    ELSE t

\* A name derivation with no special case for the root: the text after the
\* last slash, which is empty for "/".
NameOfLast(path) ==
    IF FileName(path).none THEN Some(<<>>) ELSE FileName(path)

\* The name a creation helper derives from the path.
NameOf(path) == IF path # RootPath THEN FileName(path) ELSE Some(path)

\* A number handed out in place of the counter's successor: the smallest one
\* no stored inode carries.
ReuseNumber(fs) ==
    CHOOSE n \in 1..(fs.cur_inode + 1) :
        /\ n \notin DOMAIN fs.tree
        /\ \A k \in 1..(n - 1) : k \in DOMAIN fs.tree

\* self.cur_inode += 1: the number the next inode gets.
AllocateNumber(fs) == fs.cur_inode + 1

\* TreeFilesystem::create_inode on fs = [tree, cur_inode].  The result says
\* whether the call aborted; the counter is bumped before anything can abort.
create_inode(fs, now, path, ino_type, mode, size, uid, gid, parent, data) ==
    LET ino == AllocateNumber(fs)
        attr == FileAttr(ino, size, now, ino_type, mode, uid, gid)
        name == NameOf(path)
    IN  IF \/ name.none
           \/ ino_type \notin {RegularFile, Directory}
           \/ ParentPushPanics(fs.tree, ino, parent)
        THEN [panic |-> TRUE, tree |-> fs.tree, cur_inode |-> ino]
        ELSE LET inode == IF ino_type = RegularFile
                          THEN FileInode(ino, attr, path, data, parent, name.val)
                          ELSE DirectoryInode(ino, attr, path, parent, name.val)
             IN  [panic |-> FALSE,
                  tree |-> set_inode(PushToParent(fs.tree, ino, parent), ino, inode),
                  cur_inode |-> ino]

\* A bump that raises the target's num_links field along with attrs.nlink.
BumpTargetBoth(t, tgt) ==
    IF tgt \in DOMAIN t
    THEN set_inode(t, tgt, [t[tgt] EXCEPT !.attrs.nlink = @ + 1, !.num_links = @ + 1])
    ELSE t

\* The target's link count is bumped when the target is in the store.
BumpTarget(t, tgt) ==
    IF tgt \in DOMAIN t
    THEN set_inode(t, tgt, [t[tgt] EXCEPT !.attrs.nlink = @ + 1])
    ELSE t

\* TreeFilesystem::create_symlink
create_symlink(fs, now, path, mode, size, uid, gid, parent, tgt, target_path) ==
    LET ino == AllocateNumber(fs)
        attr == FileAttr(ino, size, now, Symlink, mode, uid, gid)
        name == NameOf(path)
    IN  IF name.none \/ ParentPushPanics(fs.tree, ino, parent)
        THEN [panic |-> TRUE, tree |-> fs.tree, cur_inode |-> ino]
        ELSE LET inode == LinkInode(ino, attr, path, tgt, parent, name.val, target_path)
             IN  [panic |-> FALSE,
                  tree |-> set_inode(BumpTarget(PushToParent(fs.tree, ino, parent), tgt),
                                     ino, inode),
                  cur_inode |-> ino]

RECURSIVE WalkPastFile(_, _, _, _)
\* A walk that forgets to stop at an inode that is not a link: it asks such
\* an inode for its target again and again.
WalkPastFile(t, cur, tgt, fuel) ==
    IF tgt = 0 \/ tgt \notin DOMAIN t THEN Some(cur)
    ELSE IF fuel = 0 THEN None
         ELSE WalkPastFile(t, tgt, IF t[tgt].variant = Symlink THEN t[tgt].target ELSE tgt,
                           fuel - 1)

\* TreeFilesystem::resolve_symlink: follow target numbers until 0, a missing
\* inode or a non-link; the result is the last inode reached, looked up
\* again in the store.  The code has no hop limit; fuel bounds the walk here
\* and running out of it stands for a walk that never ends.
RECURSIVE Walk(_, _, _, _)
Walk(t, cur, tgt, fuel) ==
    IF tgt = 0 \/ tgt \notin DOMAIN t THEN Some(cur)
    ELSE IF fuel = 0 THEN None
    ELSE Walk(t, tgt, IF t[tgt].variant = Symlink THEN t[tgt].target ELSE 0, fuel - 1)

\* A resolver that yields none for a link whose target is not in the store.
ResolveToTarget(t, inode) ==
    IF inode.variant # Symlink \/ inode.target \notin DOMAIN t
    THEN [loops |-> FALSE, res |-> None]
    ELSE LET w == Walk(t, inode.inode_num, inode.target, Cardinality(DOMAIN t) + 1)
         IN  IF w.none THEN [loops |-> TRUE, res |-> None]
             ELSE [loops |-> FALSE, res |-> get_inode(t, w.val)]

\* [loops |-> the walk does not end, res |-> Option<inode>]
resolve_symlink(t, inode) ==
    IF inode.variant # Symlink THEN [loops |-> FALSE, res |-> None]
    ELSE LET w == Walk(t, inode.inode_num, inode.target, Cardinality(DOMAIN t) + 1)
         IN  IF w.none THEN [loops |-> TRUE, res |-> None]
             ELSE [loops |-> FALSE, res |-> get_inode(t, w.val)]

----------------------------------------------------------------------------
(* The file-handle table: operators on a map h from inode numbers to       *)
(* counters.                                                               *)

Handle(num, rd, wr) == [num |-> num, rd |-> rd, wr |-> wr]

\* TreeFilesystem::allocate_file_handle: [table, fh]
allocate_file_handle(h, ino, can_rd, can_wr) ==
    LET fh_num == IF ino \in DOMAIN h THEN h[ino] + 1 ELSE 1
    IN  [table |-> [i \in DOMAIN h \cup {ino} |-> IF i = ino THEN fh_num ELSE h[i]],
         fh |-> Handle(fh_num, can_rd, can_wr)]

\* A release that leaves the counter where it is.
ReleaseKeepsCounter(h, ino) ==
    IF ino \notin DOMAIN h THEN {[panic |-> TRUE, table |-> h]}
    ELSE {[panic |-> FALSE, table |-> h]}

\* TreeFilesystem::release_file_handle.  unwrap() aborts when the inode has
\* no entry.  With a counter of 0 the logging line evaluates fh_num - 1 on a
\* u64: an abort in a build with overflow checks and logging enabled,
\* otherwise nothing; both outcomes are kept.
release_file_handle(h, ino) ==
    IF ino \notin DOMAIN h THEN {[panic |-> TRUE, table |-> h]}
    ELSE IF h[ino] # 0
         THEN {[panic |-> FALSE, table |-> [h EXCEPT ![ino] = @ - 1]]}
         ELSE {[panic |-> FALSE, table |-> h], [panic |-> TRUE, table |-> h]}

----------------------------------------------------------------------------
(* Permission checks.                                                      *)

\* A read check whose bypass looks at the requester's uid alone.
CanReadUidBypass(mode, uid, gid, req_uid, req_gid) ==
    \/ Bit(mode, 256) /\ req_uid = uid
    \/ Bit(mode, 32) /\ req_gid = gid
    \/ Bit(mode, 4)
    \/ req_uid = 0

can_read(mode, uid, gid, req_uid, req_gid) ==
    \/ Bit(mode, 256) /\ req_uid = uid
    \/ Bit(mode, 32) /\ req_gid = gid
    \/ Bit(mode, 4)
    \/ req_uid = 0 /\ req_gid = 0

can_write(mode, uid, gid, req_uid, req_gid) ==
    \/ Bit(mode, 128) /\ req_uid = uid
    \/ Bit(mode, 16) /\ req_gid = gid
    \/ Bit(mode, 2)
    \/ req_uid = 0 /\ req_gid = 0

can_execute(mode, uid, gid, req_uid, req_gid) ==
    \/ Bit(mode, 64) /\ req_uid = uid
    \/ Bit(mode, 8) /\ req_gid = gid
    \/ Bit(mode, 1)
    \/ req_uid = 0 /\ req_gid = 0

CanRead(inode, u) == can_read(inode.attrs.perm, inode.attrs.uid, inode.attrs.gid, u.uid, u.gid)
CanWrite(inode, u) == can_write(inode.attrs.perm, inode.attrs.uid, inode.attrs.gid, u.uid, u.gid)
CanExecute(inode, u) == can_execute(inode.attrs.perm, inode.attrs.uid, inode.attrs.gid, u.uid, u.gid)

----------------------------------------------------------------------------
(* Replies.  A handler either replies once or aborts the process.          *)

ReplyError(e) == [res |-> "error", errno |-> e]
ReplyOk == [res |-> "ok"]
ReplyAttr(attrs) == [res |-> "attr", attrs |-> attrs]
ReplyEntry(attrs) == [res |-> "entry", attrs |-> attrs]
ReplyData(bytes) == [res |-> "data", data |-> bytes]
ReplyDirectory(entries) == [res |-> "dir", entries |-> entries]
ReplyOpened(fh) == [res |-> "opened", fh |-> fh]
ReplyWritten(n) == [res |-> "written", size |-> n]
ReplyCreated(attrs, fh) == [res |-> "created", attrs |-> attrs, fh |-> fh]
Aborted == [res |-> "panic"]
NoReply == [res |-> "hang"]

\* The filesystem a handler works on, and what it leaves behind.
Fs(t, c, h) == [tree |-> t, cur_inode |-> c, file_handles |-> h]
Out(fs, r) == [fs |-> fs, reply |-> r]

----------------------------------------------------------------------------
(* The read-only handlers.                                                 *)

getattr(fs, ino) ==
    LET a == get_inode(fs.tree, ino)
    IN  IF a.none THEN Out(fs, ReplyError("ENOENT"))
        ELSE IF a.val.variant = Symlink THEN Out(fs, Aborted)
        ELSE Out(fs, ReplyAttr(a.val.attrs))

\* The entries readdir adds for the children, from index i on; none when a
\* child is missing from the store (todo!()).
RECURSIVE DirEntries(_, _, _)
DirEntries(t, contents, i) ==
    IF i > Len(contents) THEN Some(<<>>)
    ELSE IF contents[i] \notin DOMAIN t THEN None
    ELSE LET rest == DirEntries(t, contents, i + 1)
             c == t[contents[i]]
         IN  IF rest.none THEN None
             ELSE Some(<<[ino |-> c.inode_num, offset |-> (i - 1) + 2,
                          kind |-> c.attrs.kind, name |-> c.name]>> \o rest.val)

readdir(fs, ino, offset) ==
    LET a == get_inode(fs.tree, ino)
    IN  IF a.none \/ ~HasContents(a.val) THEN Out(fs, Aborted)
        ELSE IF offset # 0 THEN Out(fs, ReplyDirectory(<<>>))
        ELSE LET kids == DirEntries(fs.tree, a.val.contents, 1)
                 dot == [ino |-> a.val.inode_num, offset |-> 0,
                         kind |-> Directory, name |-> <<".">>]
                 dotdot == [ino |-> a.val.inode_num, offset |-> 1,
                            kind |-> Directory, name |-> <<".", ".">>]
             IN  IF kids.none THEN Out(fs, Aborted)
                 ELSE Out(fs, ReplyDirectory(<<dot, dotdot>> \o kids.val))

\* The first child, from index i on, that is in the store and has the name.
RECURSIVE FindChild(_, _, _, _)
FindChild(t, contents, name, i) ==
    IF i > Len(contents) THEN None
    ELSE IF contents[i] \in DOMAIN t /\ t[contents[i]].name = name
         THEN Some(t[contents[i]])
         ELSE FindChild(t, contents, name, i + 1)

lookup(fs, parent, name) ==
    LET p == get_inode(fs.tree, parent)
    IN  IF p.none THEN Out(fs, ReplyError("ENOENT"))
        ELSE IF ~HasContents(p.val) THEN Out(fs, Aborted)
        ELSE LET child == FindChild(fs.tree, p.val.contents, name, 1)
             IN  IF child.none THEN Out(fs, ReplyError("ENOENT"))
                 ELSE Out(fs, ReplyEntry(child.val.attrs))

\* A slice taken from the start of the data whatever the offset.
ReadSliceFromStart(file_data, offset, size) ==
    Some(SubSeq(file_data, 1, Min(size, Len(file_data))))

\* &file_data[offset..end] with end clamped to the length; none when the
\* slice is out of range (offset > end aborts).
ReadSlice(file_data, offset, size) ==
    LET end == Min(offset + size, Len(file_data))
    IN  IF offset > end THEN None ELSE Some(SubSeq(file_data, offset + 1, end))

\* The inode read works on: the inode itself, or for a link what
\* resolve_symlink yields (the link itself when that is none).
ReadTarget(t, a) ==
    IF a.variant # Symlink THEN a
    ELSE LET r == resolve_symlink(t, a) IN IF r.res.none THEN a ELSE r.res.val

read(fs, u, ino, fh, offset, size) ==
    LET a == get_inode(fs.tree, ino)
    IN  IF a.none THEN Out(fs, ReplyError("EPERM"))
        ELSE IF a.val.variant = Symlink /\ resolve_symlink(fs.tree, a.val).loops
        THEN Out(fs, NoReply)
        ELSE LET ino_data == ReadTarget(fs.tree, a.val)
             IN  IF ~CanRead(ino_data, u) THEN Out(fs, ReplyError("EACCES"))
                 ELSE IF ~HasData(ino_data) THEN Out(fs, Aborted)
                 ELSE LET slice == ReadSlice(ino_data.data, offset, size)
                      IN  IF slice.none THEN Out(fs, Aborted)
                          ELSE Out(fs, ReplyData(slice.val))

readlink(fs, u, ino) ==
    LET a == get_inode(fs.tree, ino)
    IN  IF a.none THEN Out(fs, Aborted)
        ELSE LET r == resolve_symlink(fs.tree, a.val)
             IN  IF r.loops THEN Out(fs, NoReply)
                 ELSE IF r.res.none THEN Out(fs, ReplyError("ENOSYS"))
                 ELSE IF ~CanRead(r.res.val, u) THEN Out(fs, ReplyError("EACCES"))
                 ELSE LET d == get_symlink_data(a.val)
                      IN  Out(fs, ReplyData(IF d.none THEN <<>> ELSE d.val))

----------------------------------------------------------------------------
(* open, write, release.                                                   *)

\* The (read_allowed, write_allowed, exec_allowed) open derives from the
\* access mode; exec_allowed is false in every arm.
OpenModes(flags) ==
    LET acc == flags % (O_ACCMODE + 1)
    IN  IF acc = O_RDONLY THEN [rd |-> TRUE, wr |-> FALSE, ex |-> FALSE]
        ELSE IF acc = O_WRONLY THEN [rd |-> FALSE, wr |-> TRUE, ex |-> FALSE]
        ELSE [rd |-> TRUE, wr |-> TRUE, ex |-> FALSE]

\* perms_match of open
OpenPermsMatch(inode, u, m) ==
    /\ m.rd => CanRead(inode, u)
    /\ m.wr => CanWrite(inode, u)
    /\ m.ex => CanExecute(inode, u)

open(fs, u, ino, flags) ==
    LET acc == flags % (O_ACCMODE + 1)
        m == OpenModes(flags)
        a == get_inode(fs.tree, ino)
    IN  IF acc = O_RDONLY /\ Bit(flags, O_TRUNC) THEN Out(fs, ReplyError("EACCES"))
        ELSE IF acc \notin {O_RDONLY, O_WRONLY, O_RDWR} THEN Out(fs, ReplyError("EINVAL"))
        ELSE IF a.none THEN Out(fs, ReplyError("ENOSYS"))
        ELSE IF a.val.variant = Symlink THEN Out(fs, Aborted)
        ELSE IF OpenPermsMatch(a.val, u, m)
        THEN LET al == allocate_file_handle(fs.file_handles, ino, m.rd, m.wr)
             IN  Out([fs EXCEPT !.file_handles = al.table], ReplyOpened(al.fh))
        ELSE Out(fs, ReplyError("EACCES"))

\* InodeTrait::write_data is not among the sources; the description of write
\* gives it: bytes before the offset are kept, the new bytes follow, what
\* came after is dropped, and the buffer is extended (zero bytes) when the
\* offset lies beyond its end.
RECURSIVE Zeros(_)
Zeros(n) == IF n <= 0 THEN <<>> ELSE <<"NUL">> \o Zeros(n - 1)

write_data(old, bytes, offset) ==
    SubSeq(old, 1, Min(offset, Len(old))) \o Zeros(offset - Len(old)) \o bytes

\* The attrs write stores: mtime, atime, size and blocks are recomputed.
\* Attributes after a write that leaves size and blocks as they were.
WriteAttrsKeepSize(attrs, now, new_length) ==
    [attrs EXCEPT !.mtime = now, !.atime = now]

WriteAttrs(attrs, now, new_length) ==
    [attrs EXCEPT !.mtime = now, !.atime = now, !.size = new_length,
                  !.blocks = (new_length + BLOCK_SIZE - 1) \div BLOCK_SIZE]

\* A write that skips the capability check.
WriteUnchecked(fh) == FALSE

\* The capability check of write: the handle's write bit.
WriteRefused(fh) == ~fh.wr

write(fs, now, ino, fh, offset, bytes) ==
    LET a == get_inode(fs.tree, ino)
    IN  IF WriteRefused(fh) THEN Out(fs, ReplyError("EACCES"))
        ELSE IF a.none THEN Out(fs, ReplyError("EBADF"))
        ELSE IF ~HasData(a.val) THEN Out(fs, Aborted)
        ELSE LET new_data == write_data(a.val.data, bytes, offset)
                 ino_data == [a.val EXCEPT
                                 !.data = new_data,
                                 !.attrs = WriteAttrs(a.val.attrs, now, Len(new_data))]
             IN  Out([fs EXCEPT !.tree = set_inode(fs.tree, ino, ino_data)],
                     ReplyWritten(Len(bytes)))

\* release has one outcome per outcome of release_file_handle.
release(fs, ino) ==
    {IF r.panic THEN Out(fs, Aborted)
     ELSE Out([fs EXCEPT !.file_handles = r.table], ReplyOk)
        : r \in release_file_handle(fs.file_handles, ino)}

----------------------------------------------------------------------------
(* unlink.                                                                 *)

RECURSIVE UnlinkScanOrLast(_, _, _, _)
\* A scan that settles on the last child when no child carries the name.
UnlinkScanOrLast(t, contents, name, i) ==
    IF i > Len(contents) THEN [panic |-> FALSE, index |-> Len(contents)]
    ELSE IF contents[i] \notin DOMAIN t THEN [panic |-> TRUE, index |-> 0]
    ELSE IF t[contents[i]].name = name THEN [panic |-> FALSE, index |-> i]
    ELSE UnlinkScanOrLast(t, contents, name, i + 1)

\* The loop of unlink over the parent's contents: "panic" at a child that is
\* missing from the store, else the index of the first child with the name,
\* or 0.
RECURSIVE UnlinkScan(_, _, _, _)
UnlinkScan(t, contents, name, i) ==
    IF i > Len(contents) THEN [panic |-> FALSE, index |-> 0]
    ELSE IF contents[i] \notin DOMAIN t THEN [panic |-> TRUE, index |-> 0]
    ELSE IF t[contents[i]].name = name THEN [panic |-> FALSE, index |-> i]
    ELSE UnlinkScan(t, contents, name, i + 1)

\* A removal that drops the last entry whichever child matched.
UnlinkContentsPop(contents, ino) == SubSeq(contents, 1, Len(contents) - 1)

\* The parent's contents after the matching child was taken out.
UnlinkContents(contents, ino) ==
    LET index == Position(contents, ino)
    IN  IF index # 0 THEN RemoveAt(contents, index) ELSE contents

unlink(fs, now, u, parent, name) ==
    LET p == get_inode(fs.tree, parent)
    IN  IF p.none THEN Out(fs, ReplyError("EBADF"))
        ELSE IF p.val.variant = Symlink THEN Out(fs, Aborted)
        ELSE IF ~CanWrite(p.val, u) THEN Out(fs, ReplyError("EACCES"))
        ELSE IF ~HasContents(p.val) THEN Out(fs, Aborted)
        ELSE LET scan == UnlinkScan(fs.tree, p.val.contents, name, 1)
                 hit == scan.index # 0
                 ino == p.val.contents[scan.index]
                 t1 == IF hit THEN remove_inode(fs.tree, ino) ELSE fs.tree
                 ino_contents == IF hit THEN UnlinkContents(p.val.contents, ino)
                                 ELSE p.val.contents
                 ino_data == [p.val EXCEPT !.attrs.mtime = now, !.attrs.atime = now,
                                           !.contents = ino_contents]
             IN  IF scan.panic THEN Out(fs, Aborted)
                 ELSE Out([fs EXCEPT !.tree = set_inode(t1, parent, ino_data)], ReplyOk)

----------------------------------------------------------------------------
(* create.                                                                 *)

RECURSIVE CreateScanByName(_, _, _, _)
\* A scan that compares the children's names with the whole target path, and
\* so finds none of them.
CreateScanByName(t, contents, target_path, i) ==
    IF i > Len(contents) THEN "free"
    ELSE IF contents[i] \notin DOMAIN t THEN "panic"
    ELSE IF t[contents[i]].name = target_path THEN "exists"
    ELSE CreateScanByName(t, contents, target_path, i + 1)

\* The existence check of create over the parent's contents: "panic" at a
\* child missing from the store, "exists" at a child with the target path.
RECURSIVE CreateScan(_, _, _, _)
CreateScan(t, contents, target_path, i) ==
    IF i > Len(contents) THEN "free"
    ELSE IF contents[i] \notin DOMAIN t THEN "panic"
    ELSE IF t[contents[i]].path = target_path THEN "exists"
    ELSE CreateScan(t, contents, target_path, i + 1)

\* A parent written back with the new child listed twice.
CreateParentTwice(parent_inode, now, ino) ==
    [parent_inode EXCEPT !.attrs.mtime = now, !.attrs.atime = now,
                         !.contents = Push(Push(parent_inode.contents, ino), ino)]

\* The parent create writes back once the file exists: its own clone, taken
\* before create_inode ran, with the timestamps and the new child added.
CreateParent(parent_inode, now, ino) ==
    [parent_inode EXCEPT !.attrs.mtime = now, !.attrs.atime = now,
                         !.contents = Push(parent_inode.contents, ino)]

create(fs, now, u, parent, name, mode, flags) ==
    LET p == get_inode(fs.tree, parent)
        target_path == Join(p.val.path, name)
        acc == flags % (O_ACCMODE + 1)
        m == OpenModes(flags)
        scan == CreateScan(fs.tree, p.val.contents, target_path, 1)
        made == create_inode([tree |-> fs.tree, cur_inode |-> fs.cur_inode], now,
                             target_path, RegularFile, mode, 0, u.uid, u.gid,
                             p.val.inode_num, <<>>)
        target_ino == made.tree[made.cur_inode]
        t2 == set_inode(made.tree, parent, CreateParent(p.val, now, target_ino.inode_num))
        al == allocate_file_handle(fs.file_handles, target_ino.inode_num, m.rd, m.wr)
    IN  IF p.none THEN Out(fs, ReplyError("EEXIST"))
        ELSE IF ~HasContents(p.val) \/ scan = "panic" THEN Out(fs, Aborted)
        ELSE IF scan = "exists" THEN Out(fs, ReplyError("EEXIST"))
        ELSE IF acc \notin {O_RDONLY, O_WRONLY, O_RDWR} THEN Out(fs, ReplyError("EINVAL"))
        ELSE IF ~CanWrite(p.val, u) THEN Out(fs, ReplyError("EACCES"))
        ELSE IF mode >= U16 THEN Out(fs, Aborted)
        ELSE IF made.panic THEN Out([fs EXCEPT !.cur_inode = made.cur_inode], Aborted)
        ELSE Out(Fs(t2, made.cur_inode, al.table), ReplyCreated(target_ino.attrs, al.fh))

----------------------------------------------------------------------------
(* rename.                                                                 *)

\* InodeTrait::set_name is not among the sources; it stores the name.
set_name(inode, name) == [inode EXCEPT !.name = name]

\* The new parent's contents: the source is appended unless already there.
\* New-parent contents that always take the source at the end, dropping an
\* earlier entry for it.
RenameNewContentsPush(new_parent_contents, source_ino_num) ==
    Push(UnlinkContents(new_parent_contents, source_ino_num), source_ino_num)

RenameNewContents(new_parent_contents, source_ino_num) ==
    IF Position(new_parent_contents, source_ino_num) = 0
    THEN Push(new_parent_contents, source_ino_num)
    ELSE new_parent_contents

\* The old parent's contents: the source is taken out.
RenameOldContents(parent_contents, source_ino_num) ==
    LET index == Position(parent_contents, source_ino_num)
    IN  IF index # 0 THEN RemoveAt(parent_contents, index) ELSE parent_contents

\* Whether rename finds its target path taken.
RenameTargetExists(t, target_path) == ~get_inode_by_path(t, target_path).none

rename(fs, now, u, parent, name, new_parent, new_name) ==
    LET p == get_inode(fs.tree, parent)
        np == get_inode(fs.tree, new_parent)
        source_path == Join(p.val.path, name)
        target_path == Join(np.val.path, new_name)
        src == get_inode_by_path(fs.tree, source_path)
        num == src.val.inode_num
        source_ino == set_name([src.val EXCEPT !.attrs.mtime = now, !.attrs.atime = now,
                                               !.parent = np.val.inode_num,
                                               !.path = target_path],
                               new_name)
        parent_inode == [p.val EXCEPT !.attrs.mtime = now, !.attrs.atime = now,
                                      !.contents = RenameOldContents(p.val.contents, num)]
        new_parent_inode == [np.val EXCEPT !.attrs.mtime = now, !.attrs.atime = now,
                                           !.contents = RenameNewContents(np.val.contents, num)]
        t1 == remove_inode(fs.tree, num)
        t2 == set_inode(t1, parent_inode.inode_num, parent_inode)
        t3 == set_inode(t2, new_parent_inode.inode_num, new_parent_inode)
        t4 == set_inode(t3, num, source_ino)
    IN  IF p.none THEN Out(fs, ReplyError("EPERM"))
        ELSE IF p.val.variant = Symlink THEN Out(fs, Aborted)
        ELSE IF np.none THEN Out(fs, ReplyError("EPERM"))
        ELSE IF np.val.variant = Symlink THEN Out(fs, Aborted)
        ELSE IF src.none THEN Out(fs, ReplyError("EPERM"))
        ELSE IF src.val.variant = Symlink THEN Out(fs, Aborted)
        ELSE IF RenameTargetExists(fs.tree, target_path) THEN Out(fs, ReplyError("EINVAL"))
        ELSE IF ~CanRead(src.val, u) \/ ~CanWrite(np.val, u) THEN Out(fs, ReplyError("EPERM"))
        ELSE IF ~HasContents(p.val) \/ ~HasContents(np.val) THEN Out(fs, Aborted)
        ELSE Out([fs EXCEPT !.tree = t4], ReplyOk)

----------------------------------------------------------------------------
(* setattr.                                                                *)

\* A mode that is truncated but keeps its set-group-id bit.
SetattrPermKeep(m) == m % U16

\* (m & !S_ISGID as u32) as u16
SetattrPerm(m) == ClearBit(m, S_ISGID) % U16

\* fuser::TimeOrNow
TimeNow == [is_now |-> TRUE]
SpecificTime(t) == [is_now |-> FALSE, time |-> t]

\* A time argument: none, now, or a specific time.
TimeArg(arg, old, now) ==
    IF arg.none THEN old ELSE IF arg.val.is_now THEN now ELSE arg.val.time

\* The attrs setattr stores for the fields the request carries.
SetattrAttrs(attrs, now, a) ==
    [attrs EXCEPT
        !.perm = IF a.mode.none THEN @ ELSE SetattrPerm(a.mode.val),
        !.uid = IF a.uid.none THEN @ ELSE a.uid.val,
        !.gid = IF a.gid.none THEN @ ELSE a.gid.val,
        !.size = IF a.size.none THEN @ ELSE a.size.val,
        !.atime = TimeArg(a.atime, @, now),
        !.mtime = TimeArg(a.mtime, @, now)]

\* A setattr that stores the inode before it checks the permission.
SetattrStoreFirst(fs, now, u, ino, a) ==
    LET i == get_inode(fs.tree, ino)
        ino_data == [i.val EXCEPT !.attrs = SetattrAttrs(i.val.attrs, now, a)]
        stored == [fs EXCEPT !.tree = set_inode(fs.tree, ino_data.inode_num, ino_data)]
    IN  IF i.none THEN Out(fs, ReplyError("EPERM"))
        ELSE IF i.val.variant = Symlink THEN Out(fs, Aborted)
        ELSE IF ~CanWrite(i.val, u) THEN Out(stored, ReplyError("EPERM"))
        ELSE Out(stored, ReplyAttr(ino_data.attrs))

setattr(fs, now, u, ino, a) ==
    LET i == get_inode(fs.tree, ino)
        ino_data == [i.val EXCEPT !.attrs = SetattrAttrs(i.val.attrs, now, a)]
    IN  IF i.none THEN Out(fs, ReplyError("EPERM"))
        ELSE IF i.val.variant = Symlink THEN Out(fs, Aborted)
        ELSE IF ~CanWrite(i.val, u) THEN Out(fs, ReplyError("EPERM"))
        ELSE Out([fs EXCEPT !.tree = set_inode(fs.tree, ino_data.inode_num, ino_data)],
                 ReplyAttr(ino_data.attrs))

----------------------------------------------------------------------------
(* symlink.                                                                *)

symlink(fs, now, u, parent, link_name, tgt) ==
    LET p == get_inode(fs.tree, parent)
        path == Join(p.val.path, link_name)
        target_path == Join(RootPath, tgt)
        target_ino == get_inode_by_path(fs.tree, target_path)
        rel == StripRoot(target_ino.val.path)
        canonical_target == Join(Mountpoint, rel.val)
        base == [tree |-> fs.tree, cur_inode |-> fs.cur_inode]
        made == IF target_ino.none
                THEN create_symlink(base, now, path, 511, Len(tgt), u.uid, u.gid,
                                    parent, 0, tgt)
                ELSE create_symlink(base, now, path, 511, Len(tgt), u.uid, u.gid,
                                    parent, target_ino.val.inode_num, canonical_target)
    IN  IF p.none THEN Out(fs, ReplyError("EPERM"))
        ELSE IF ~CanWrite(p.val, u) THEN Out(fs, ReplyError("EACCES"))
        ELSE IF ~target_ino.none /\ rel.none THEN Out(fs, Aborted)
        ELSE IF made.panic THEN Out([fs EXCEPT !.cur_inode = made.cur_inode], Aborted)
        ELSE Out([fs EXCEPT !.tree = made.tree, !.cur_inode = made.cur_inode],
                 ReplyEntry(made.tree[made.cur_inode].attrs))

----------------------------------------------------------------------------
(* Requests.  The inputs each handler is tried with.                       *)

Owner == [uid |-> 1000, gid |-> 1000]
Other == [uid |-> 1001, gid |-> 1001]
Users == {Owner, Other}

Names == {Foo, Answer, NewName}

\* Every inode number handed out so far, and one that never was.
InoArgs == 1..(cur_inode + 1)

\* The root, the oldest file, the newest inode, and a number never handed out.
FewInoArgs == {1, 2, cur_inode, cur_inode + 1}

\* Handles a request may carry: read-only and write-only capability.
ReadOnlyFh == Handle(1, TRUE, FALSE)
WriteOnlyFh == Handle(1, FALSE, TRUE)

ReadRanges == {[offset |-> 0, size |-> 1024], [offset |-> 1, size |-> 1],
               [offset |-> 2, size |-> 1], [offset |-> 4, size |-> 1]}
ReadArgs ==
    {[user |-> Owner, fh |-> ReadOnlyFh, range |-> r] : r \in ReadRanges}
    \cup {[user |-> u, fh |-> WriteOnlyFh, range |-> [offset |-> 0, size |-> 1024]]
            : u \in Users}
DirOffsets == {0, 1}

OpenFlags == {O_RDONLY, O_WRONLY, O_RDWR, O_ACCMODE, O_RDONLY + O_TRUNC,
              O_RDONLY + FMODE_EXEC}
CreateFlags == {O_RDWR, O_ACCMODE}
CreateModes == {420}

WriteArgs ==
    {[fh |-> WriteOnlyFh, offset |-> o, data |-> <<"w">>] : o \in {0, 1, 4}}
    \cup {[fh |-> ReadOnlyFh, offset |-> 0, data |-> <<"w">>]}

LinkNames == {Foo, NewName}
SymlinkTargets == {Answer, NewName}

RenameNames == {[name |-> Foo, new_name |-> NewName],
                [name |-> Answer, new_name |-> NewName],
                [name |-> Foo, new_name |-> Answer],
                [name |-> Foo, new_name |-> Foo],
                [name |-> NewName, new_name |-> Foo]}

NoChange == [mode |-> None, uid |-> None, gid |-> None, size |-> None,
             atime |-> None, mtime |-> None]
SetattrArgs ==
    {[NoChange EXCEPT !.mode = Some(64)],            \* 0o100
     [NoChange EXCEPT !.mode = Some(66992)],         \* 0x10000 | 0o2660
     [NoChange EXCEPT !.size = Some(600)],
     [NoChange EXCEPT !.atime = Some(TimeNow), !.mtime = Some(SpecificTime(0))]}

----------------------------------------------------------------------------
(* The state machine.                                                      *)

CurFs == Fs(tree, cur_inode, file_handles)

\* A construction that gives both initial files the contents "bar".
InitFsSameData ==
    LET f0 == [tree |-> <<>>, cur_inode |-> 0]
        f1 == create_inode(f0, 0, RootPath, Directory, 493, 0, 1000, 1000, 0, <<>>)
        f2 == create_inode(f1, 0, <<Slash>> \o Answer, RegularFile, 420,
                           Len(Bar), 1000, 1000, 1, Bar)
        f3 == create_inode(f2, 0, <<Slash>> \o Foo, RegularFile, 420,
                           Len(Bar), 1000, 1000, 1, Bar)
    IN  f3

\* The filesystem as TreeFilesystem::new leaves it: the root, then the files
\* of main's BTreeMap in key order ("/answer" before "/foo").
InitFs ==
    LET f0 == [tree |-> <<>>, cur_inode |-> 0]
        f1 == create_inode(f0, 0, RootPath, Directory, 493, 0, 1000, 1000, 0, <<>>)
        f2 == create_inode(f1, 0, <<Slash>> \o Answer, RegularFile, 420,
                           Len(FortyTwo), 1000, 1000, 1, FortyTwo)
        f3 == create_inode(f2, 0, <<Slash>> \o Foo, RegularFile, 420,
                           Len(Bar), 1000, 1000, 1, Bar)
    IN  f3

Init ==
    /\ tree = InitFs.tree
    /\ cur_inode = InitFs.cur_inode
    /\ file_handles = <<>>
    /\ clock = 0
    /\ outstanding = EmptyBag
    /\ request = [op |-> "mount", mountpoint |-> Mountpoint]
    /\ reply = [res |-> "none"]

\* An aborted process serves nothing more.
Running == reply.res \notin {"panic", "hang"}

\* A request that changed nothing is kept by its name, its inode number and
\* its handle alone, and the run is not followed beyond it: whatever is
\* served after it is served, with the same outcome, from the state it was
\* issued in.
Brief(req) ==
    [k \in DOMAIN req \cap {"op", "ino", "fh"} |-> req[k]]
Quiet == request = Brief(request)

Entry(ino, fh) == [ino |-> ino, fh |-> fh]

\* The handles the requester holds after the reply.
Given(req, r) ==
    IF r.res = "created" THEN outstanding (+) SetToBag({Entry(r.attrs.ino, r.fh)})
    ELSE IF r.res = "opened" THEN outstanding (+) SetToBag({Entry(req.ino, r.fh)})
    ELSE IF req.op = "release" /\ r.res = "ok" /\ BagIn(Entry(req.ino, req.fh), outstanding)
    THEN outstanding (-) SetToBag({Entry(req.ino, req.fh)})
    ELSE outstanding

\* One request served.  A request that changes the filesystem or the handles
\* held takes one tick of the clock, and is served while the clock is
\* below lim.
Serve(req, out, lim) ==
    LET given == Given(req, out.reply)
        changed == out.fs # CurFs \/ given # outstanding
    IN  /\ Running /\ ~Quiet
        /\ changed => clock < lim
        /\ request' = IF changed THEN req ELSE Brief(req)
        /\ reply' = out.reply
        /\ tree' = out.fs.tree
        /\ cur_inode' = out.fs.cur_inode
        /\ file_handles' = out.fs.file_handles
        /\ clock' = IF changed THEN clock + 1 ELSE clock
        /\ outstanding' = given

Getattr ==
    \E ino \in InoArgs :
        Serve([op |-> "getattr", ino |-> ino], getattr(CurFs, ino), 0)

Readdir ==
    \E ino \in InoArgs, offset \in DirOffsets :
        Serve([op |-> "readdir", ino |-> ino, offset |-> offset],
              readdir(CurFs, ino, offset), 0)

Lookup ==
    \E parent \in InoArgs, name \in Names :
        Serve([op |-> "lookup", parent |-> parent, name |-> name],
              lookup(CurFs, parent, name), 0)

Read ==
    \E ino \in InoArgs, a \in ReadArgs :
        Serve([op |-> "read", user |-> a.user, ino |-> ino, fh |-> a.fh,
               offset |-> a.range.offset, size |-> a.range.size],
              read(CurFs, a.user, ino, a.fh, a.range.offset, a.range.size), 0)

Readlink ==
    \E u \in Users, ino \in InoArgs :
        Serve([op |-> "readlink", user |-> u, ino |-> ino], readlink(CurFs, u, ino), 0)

Open(lim, U, I, F) ==
    \E u \in U, ino \in I, flags \in F :
        Serve([op |-> "open", user |-> u, ino |-> ino, flags |-> flags],
              open(CurFs, u, ino, flags), lim)

\* The handles a release may name: those held on the inode, and those of X
\* (which the inode may never have given out).
ReleaseFhs(ino, X) ==
    {e.fh : e \in {x \in BagToSet(outstanding) : x.ino = ino}} \cup X

Release(lim, I, X) ==
    \E ino \in I :
        \E fh \in ReleaseFhs(ino, X) :
            \E out \in release(CurFs, ino) :
                Serve([op |-> "release", ino |-> ino, fh |-> fh, flush |-> FALSE], out, lim)

Write(lim) ==
    \E ino \in FewInoArgs, a \in WriteArgs :
        Serve([op |-> "write", ino |-> ino, fh |-> a.fh, offset |-> a.offset,
               data |-> a.data],
              write(CurFs, clock + 1, ino, a.fh, a.offset, a.data), lim)

Unlink(lim) ==
    \E u \in Users, parent \in FewInoArgs, name \in Names :
        Serve([op |-> "unlink", user |-> u, parent |-> parent, name |-> name],
              unlink(CurFs, clock + 1, u, parent, name), lim)

Create(lim) ==
    \E u \in Users, parent \in FewInoArgs, name \in Names,
       mode \in CreateModes, flags \in CreateFlags :
        Serve([op |-> "create", user |-> u, parent |-> parent, name |-> name,
               mode |-> mode, flags |-> flags],
              create(CurFs, clock + 1, u, parent, name, mode, flags), lim)

\* The (parent, new_parent) pairs of rename: at least one is the root.
RenameParents == {<<1, q>> : q \in FewInoArgs} \cup {<<q, 1>> : q \in FewInoArgs}

Rename(lim) ==
    \E u \in Users, pp \in RenameParents, n \in RenameNames :
        Serve([op |-> "rename", user |-> u, parent |-> pp[1], name |-> n.name,
               new_parent |-> pp[2], new_name |-> n.new_name],
              rename(CurFs, clock + 1, u, pp[1], n.name, pp[2], n.new_name), lim)

Setattr(lim) ==
    \E u \in Users, ino \in FewInoArgs, a \in SetattrArgs :
        Serve([op |-> "setattr", user |-> u, ino |-> ino, args |-> a],
              setattr(CurFs, clock + 1, u, ino, a), lim)

SymlinkOp(lim) ==
    \E u \in Users, parent \in FewInoArgs, link_name \in LinkNames,
       tgt \in SymlinkTargets :
        Serve([op |-> "symlink", user |-> u, parent |-> parent,
               link_name |-> link_name, target |-> tgt],
              symlink(CurFs, clock + 1, u, parent, link_name, tgt), lim)

\* Every handler, each family of requests with its own budget.
NextB(treeLim, dataLim, fhLim) ==
    \/ Getattr
    \/ Readdir
    \/ Lookup
    \/ Read
    \/ Readlink
    \/ Open(fhLim, Users, FewInoArgs, OpenFlags)
    \/ Release(fhLim, FewInoArgs, {ReadOnlyFh})
    \/ Write(dataLim)
    \/ Setattr(dataLim)
    \/ Unlink(treeLim)
    \/ Create(treeLim)
    \/ Rename(treeLim)
    \/ SymlinkOp(treeLim)

Next == NextB(MaxClock, MaxClock, MaxClock)

Spec == Init /\ [][Next]_vars

\* The same handlers with the budget moved to the directory tree.
NextTree == NextB(TreeDepth, TreeOther, TreeOther)

SpecTree == Init /\ [][NextTree]_vars

\* The handle table alone: the owner opens /foo and the newest inode, and
\* releases handles it holds.
FhInos == {3, cur_inode}
FhFlags == {O_RDONLY, O_WRONLY}

NextFh ==
    \/ Open(FhDepth, {Owner}, FhInos, FhFlags)
    \/ Release(FhDepth, FhInos, {})
    \/ Create(FhCreate)

SpecFh == Init /\ [][NextFh]_vars

\* The permission checks alone: one call of can_read, can_write and
\* can_execute on arguments drawn from every mode up to MaxMode, two owners
\* and nine requesters.
MaxMode == 511
PermIds == {0, 1000, 1001}
PermOwners == {[uid |-> 1000, gid |-> 1000], [uid |-> 0, gid |-> 0]}
PermCalls ==
    {[op |-> "perm", mode |-> m, uid |-> o.uid, gid |-> o.gid,
      req_uid |-> ru, req_gid |-> rg]
        : m \in 0..MaxMode, o \in PermOwners, ru \in PermIds, rg \in PermIds}

InitPerm ==
    /\ tree = InitFs.tree /\ cur_inode = InitFs.cur_inode
    /\ file_handles = <<>> /\ clock = 0 /\ outstanding = EmptyBag
    /\ request \in PermCalls
    /\ reply = [res |-> "none"]

Permissions ==
    /\ reply.res = "none"
    /\ reply' = [res |-> "perm",
                 read |-> can_read(request.mode, request.uid, request.gid,
                                   request.req_uid, request.req_gid),
                 write |-> can_write(request.mode, request.uid, request.gid,
                                     request.req_uid, request.req_gid),
                 execute |-> can_execute(request.mode, request.uid, request.gid,
                                         request.req_uid, request.req_gid)]
    /\ UNCHANGED <<tree, cur_inode, file_handles, clock, outstanding, request>>

NextPerm == Permissions

SpecPerm == InitPerm /\ [][NextPerm]_vars


----------------------------------------------------------------------------
(* Properties.                                                             *)

Stores == <<tree, cur_inode, file_handles>>

\* C1: every request ends with its one reply; none ends in a fatal abort or
\* without a reply, whatever the variant of the inode it names and whether
\* or not the inode exists.
C1_EveryRequestReplied == reply.res \notin {"panic", "hang"}

\* The children of a directory, as stored.
Children(d) == {tree[d].contents[k] : k \in 1..Len(tree[d].contents)}

\* C2: every inode other than the root has a parent that is in the store, is
\* a directory and lists the inode among its contents.
C2_ParentListsChild ==
    \A i \in DOMAIN tree \ {1} :
        /\ tree[i].parent \in DOMAIN tree
        /\ tree[tree[i].parent].variant = Directory
        /\ i \in Children(tree[i].parent)

\* A rename succeeded in a tree that had grown and then stayed or shrunk.
C2_Witness ==
    /\ request.op = "rename" /\ reply.res = "ok"
    /\ cur_inode > 3
    /\ Cardinality(DOMAIN tree) >= 3

\* C3: no directory lists two children with the same name.
C3_UniqueNames ==
    \A d \in DOMAIN tree :
        tree[d].variant = Directory =>
            \A j, k \in 1..Len(tree[d].contents) :
                LET a == tree[d].contents[j]
                    b == tree[d].contents[k]
                IN  (j # k /\ a \in DOMAIN tree /\ b \in DOMAIN tree)
                        => tree[a].name # tree[b].name

\* C4: every file inode's size attribute is the length of its data and its
\* block count is the size divided by the block size, rounded up.
C4_SizeMatchesData ==
    \A i \in DOMAIN tree :
        tree[i].variant = RegularFile =>
            /\ tree[i].attrs.size = Len(tree[i].data)
            /\ tree[i].attrs.blocks
                   = (tree[i].attrs.size + tree[i].attrs.blksize - 1)
                         \div tree[i].attrs.blksize

\* C5: a request answered with an error number leaves the inode store, the
\* inode counter and the handle table as they were.
C5_ErrorsCommitNothing ==
    [][reply'.res = "error" => Stores' = Stores]_vars

\* A create was refused for lack of write permission on the parent, after
\* the handler had stamped its copy of the parent.
C5_Witness ==
    /\ request.op = "create"
    /\ reply = ReplyError("EACCES")

\* C6: the inode counter never decreases, no stored inode carries a number
\* above it, and an inode that enters the store carries a number above the
\* counter's earlier value.
C6_CounterMonotonic ==
    [][/\ cur_inode' >= cur_inode
       /\ \A i \in DOMAIN tree : i <= cur_inode
       /\ \A i \in DOMAIN tree' : i <= cur_inode'
       /\ \A i \in DOMAIN tree' \ DOMAIN tree : i > cur_inode]_vars

\* An inode was made after another had been removed: the freed number stays
\* free.
C6_Witness ==
    /\ request.op \in {"create", "symlink"}
    /\ reply.res \in {"created", "entry"}
    /\ \E n \in 1..(cur_inode - 1) : n \notin DOMAIN tree
    /\ cur_inode \in DOMAIN tree

\* C7: two handles held at the same time on the same inode with the same
\* access mode are different integers.
C7_OutstandingDistinct ==
    \A e \in BagToSet(outstanding) : CopiesIn(e, outstanding) = 1

\* C8: a release is answered ok for any inode number, also one that never
\* had a handle.
C8_ReleaseAlwaysOk == request.op = "release" => reply.res = "ok"

\* C9: a read that carries a handle without the read bit gets no data.
C9_ReadNeedsReadBit ==
    (request.op = "read" /\ ~request.fh.rd) => reply.res # "data"

\* C10: a write that carries a handle without the write bit is answered
\* EACCES, whether or not its inode exists, and changes nothing.
C10_WriteRefusedFirst ==
    [][(request'.op = "write" /\ ~request'.fh.wr)
          => (reply' = ReplyError("EACCES") /\ Stores' = Stores)]_vars

\* Such a write named an inode that is not in the store.
C10_Witness ==
    /\ request.op = "write" /\ ~request.fh.wr
    /\ request.ino \notin DOMAIN tree
    /\ reply = ReplyError("EACCES")

\* C11: open with a plain access mode on an inode in the store replies
\* opened exactly when the mode's checks hold for the requester (O_RDONLY:
\* can_read, O_WRONLY: can_write, O_RDWR: both) and EACCES otherwise; the
\* handle carries the read bit iff the mode reads, the write bit iff the
\* mode writes, and the inode's new counter value as its number.
C11_OpenDecidedByMode ==
    \A ino \in DOMAIN tree, u \in Users, flags \in {O_RDONLY, O_WRONLY, O_RDWR} :
        LET out == open(CurFs, u, ino, flags)
            rd == flags \in {O_RDONLY, O_RDWR}
            wr == flags \in {O_WRONLY, O_RDWR}
            required == /\ rd => CanRead(tree[ino], u)
                        /\ wr => CanWrite(tree[ino], u)
        IN  IF required
            THEN /\ out.reply.res = "opened"
                 /\ out.reply.fh.rd = rd
                 /\ out.reply.fh.wr = wr
                 /\ out.reply.fh.num = out.fs.file_handles[ino]
            ELSE out.reply = ReplyError("EACCES")

\* C12: an open with O_RDONLY and the exec-mode bit replies opened only to
\* a requester that has execute permission on the inode.
C12_ExecOpenNeedsExecute ==
    (/\ request.op = "open"
     /\ reply.res = "opened"
     /\ request.flags = O_RDONLY + FMODE_EXEC)
        => CanExecute(tree[request.ino], request.user)

\* C13: can_read, can_write and can_execute grant exactly when the owner
\* bit is set and the requester is the owner, or the group bit is set and
\* the requester's gid is the owner's, or the other bit is set, or the
\* requester is uid 0 with gid 0; the bits are 0o400/0o040/0o004 for read,
\* 0o200/0o020/0o002 for write and 0o100/0o010/0o001 for execute.
C13_PermissionTable ==
    reply.res = "perm" =>
        LET on(b) == (request.mode \div b) % 2 = 1
            grant(owner, group, other) ==
                \/ on(owner) /\ request.req_uid = request.uid
                \/ on(group) /\ request.req_gid = request.gid
                \/ on(other)
                \/ request.req_uid = 0 /\ request.req_gid = 0
        IN  /\ reply.read = grant(256, 32, 4)
            /\ reply.write = grant(128, 16, 2)
            /\ reply.execute = grant(64, 8, 1)

\* A requester with uid 0 and another gid was checked and got no bypass.
C13_Witness ==
    /\ reply.res = "perm"
    /\ request.req_uid = 0 /\ request.req_gid # 0
    /\ request.mode = 0
    /\ ~reply.read /\ ~reply.write /\ ~reply.execute

\* C14: wherever create(p, n) succeeds, an unlink(p, n) by the same
\* requester right after it replies ok and leaves the inode store as it was
\* before the create but for the parent's mtime and atime: the same inode
\* numbers, the same parent contents, every other inode equal.
C14_CreateThenUnlink ==
    \A u \in Users, p \in FewInoArgs, n \in Names, flags \in CreateFlags :
        LET c == create(CurFs, clock + 1, u, p, n, 420, flags)
        IN  c.reply.res = "created" =>
                LET d == unlink(c.fs, clock + 2, u, p, n)
                IN  /\ d.reply = ReplyOk
                    /\ DOMAIN d.fs.tree = DOMAIN tree
                    /\ d.fs.tree[p].contents = tree[p].contents
                    /\ \A i \in DOMAIN tree \ {p} : d.fs.tree[i] = tree[i]
                    /\ d.fs.tree[p] = [tree[p] EXCEPT
                                          !.attrs.mtime = d.fs.tree[p].attrs.mtime,
                                          !.attrs.atime = d.fs.tree[p].attrs.atime]

\* The file x was created as inode 4 and then unlinked: the store holds the
\* three initial inodes again.
C14_Witness ==
    /\ request.op = "unlink" /\ reply = ReplyOk
    /\ request.name = NewName
    /\ cur_inode = 4 /\ 4 \in DOMAIN file_handles
    /\ DOMAIN tree = 1..3
    /\ tree[1].contents = <<2, 3>>

\* C15: a write of bytes b at offset off to a regular file through a handle
\* with the write bit replies Len(b) written, and a read of Len(b) bytes at
\* off right after it, by a requester that may read the file, replies b.
C15_WriteThenRead ==
    \A ino \in DOMAIN tree, off \in {0, 1, 4}, b \in {<<"w">>, <<"w", "z">>} :
        tree[ino].variant = RegularFile =>
            LET w == write(CurFs, clock + 1, ino, WriteOnlyFh, off, b)
            IN  /\ w.reply = ReplyWritten(Len(b))
                /\ \A u \in Users :
                       CanRead(w.fs.tree[ino], u) =>
                           read(w.fs, u, ino, ReadOnlyFh, off, Len(b)).reply
                               = ReplyData(b)

\* A write landed beyond the end of a file, and the owner reads it back.
C15_Witness ==
    /\ request.op = "write" /\ reply = ReplyWritten(1)
    /\ request.offset = 4
    /\ read(CurFs, Owner, request.ino, ReadOnlyFh, 4, 1).reply = ReplyData(request.data)

\* C16: a setattr that carries only a mode m and succeeds changes nothing
\* but the inode's perm, and a getattr right after it replies the old attrs
\* with perm = m truncated to 16 bits without the set-group-id bit.
C16_SetattrModeThenGetattr ==
    \A ino \in DOMAIN tree, u \in Users, m \in {0, 64, 1024, 1456, 66992, 65536 + 511} :
        LET s == setattr(CurFs, clock + 1, u, ino, [NoChange EXCEPT !.mode = Some(m)])
            low == m % 65536
            perm == IF (low \div 1024) % 2 = 1 THEN low - 1024 ELSE low
        IN  s.reply.res = "attr" =>
                /\ s.fs = [CurFs EXCEPT !.tree[ino].attrs.perm = perm]
                /\ getattr(s.fs, ino).reply
                       = ReplyAttr([tree[ino].attrs EXCEPT !.perm = perm])

\* A setattr with mode 0x10000 | 0o2660 succeeded and getattr shows 0o660.
C16_Witness ==
    /\ request.op = "setattr" /\ reply.res = "attr"
    /\ "args" \in DOMAIN request
    /\ request.args.mode = Some(66992)
    /\ getattr(CurFs, request.ino).reply.res = "attr"
    /\ getattr(CurFs, request.ino).reply.attrs.perm = 432

\* C17: a rename between parents in the store, of a source path that names
\* an inode onto a target path that names an inode, replies EINVAL and
\* changes nothing, whoever asks; the source may be its own target.
C17_RenameOntoExisting ==
    \A u \in Users, pp \in RenameParents, n \in Names, n2 \in Names :
        (/\ pp[1] \in DOMAIN tree /\ pp[2] \in DOMAIN tree
         /\ ~get_inode_by_path(tree, Join(tree[pp[1]].path, n)).none
         /\ ~get_inode_by_path(tree, Join(tree[pp[2]].path, n2)).none)
            => rename(CurFs, clock + 1, u, pp[1], n, pp[2], n2)
                   = Out(CurFs, ReplyError("EINVAL"))

\* C18: after a rename that replied ok, lookup of the old name in the old
\* parent replies ENOENT and lookup of the new name in the new parent
\* replies the inode number lookup gave for the old name before; that inode
\* keeps its variant, kind and data, and its parent, path and name are
\* those of the new location.
C18_RenameMoves ==
    [][(request'.op = "rename" /\ reply'.res = "ok") =>
          LET r == request'
              before == lookup(CurFs, r.parent, r.name).reply
              after == Fs(tree', cur_inode', file_handles')
              num == before.attrs.ino
          IN  /\ before.res = "entry"
              /\ lookup(after, r.parent, r.name).reply = ReplyError("ENOENT")
              /\ lookup(after, r.new_parent, r.new_name).reply.res = "entry"
              /\ lookup(after, r.new_parent, r.new_name).reply.attrs.ino = num
              /\ num \in DOMAIN tree'
              /\ tree'[num].variant = tree[num].variant
              /\ tree'[num].attrs.kind = tree[num].attrs.kind
              /\ (HasData(tree[num]) => tree'[num].data = tree[num].data)
              /\ tree'[num].parent = r.new_parent
              /\ tree'[num].path = Join(tree[r.new_parent].path, r.new_name)
              /\ tree'[num].name = r.new_name]_vars

\* C19: after an unlink that replied ok, lookup of the name in the parent
\* replies ENOENT, and every other name lookup found in the parent before
\* is still found with the same inode number.
C19_UnlinkHidesName ==
    [][(request'.op = "unlink" /\ reply'.res = "ok") =>
          LET r == request'
              after == Fs(tree', cur_inode', file_handles')
          IN  /\ lookup(after, r.parent, r.name).reply = ReplyError("ENOENT")
              /\ \A n \in Names \ {r.name} :
                     LET before == lookup(CurFs, r.parent, n).reply
                     IN  before.res = "entry" =>
                             /\ lookup(after, r.parent, n).reply.res = "entry"
                             /\ lookup(after, r.parent, n).reply.attrs.ino
                                    = before.attrs.ino]_vars

\* C20: when symlink(p, l, t) replies an entry and an inode T with path
\* "/" + t was in the store, the new inode is a link whose target is T's
\* number; for a requester that may read T, readlink on the link replies
\* the mountpoint joined with T's path without its leading slash, and read
\* on the link's number replies data, T's data when T has data.
C20_SymlinkToExisting ==
    [][(/\ request'.op = "symlink" /\ reply'.res = "entry"
        /\ ~get_inode_by_path(tree, Join(RootPath, request'.target)).none) =>
          LET T == get_inode_by_path(tree, Join(RootPath, request'.target)).val
              after == Fs(tree', cur_inode', file_handles')
              link == reply'.attrs.ino
          IN  /\ link \notin DOMAIN tree
              /\ tree'[link].variant = Symlink
              /\ tree'[link].target = T.inode_num
              /\ \A u \in Users :
                     CanRead(T, u) =>
                         /\ readlink(after, u, link).reply
                                = ReplyData(Join(Mountpoint, StripRoot(T.path).val))
                         /\ read(after, u, link, ReadOnlyFh, 0, 1024).reply.res = "data"
                         /\ HasData(T) =>
                                read(after, u, link, ReadOnlyFh, 0, 1024).reply
                                    = ReplyData(T.data)]_vars

\* C21 as stated: readlink on a link whose target is 0 or is not in the
\* store replies ENOSYS.
C21_UnresolvedIsENOSYS ==
    \A ino \in DOMAIN tree, u \in Users :
        (tree[ino].variant = Symlink /\ tree[ino].target \notin DOMAIN tree)
            => readlink(CurFs, u, ino).reply = ReplyError("ENOSYS")

\* C21 amended: readlink on a link whose target is 0 or is not in the store
\* resolves to the link itself: it replies the link's stored target_path to
\* a requester that may read the link and EACCES to any other, and ENOSYS
\* is the reply for an inode that is not a link.
C21_UnresolvedRepliesTargetPath ==
    \A ino \in DOMAIN tree, u \in Users :
        /\ (tree[ino].variant = Symlink /\ tree[ino].target \notin DOMAIN tree)
               => readlink(CurFs, u, ino).reply
                      = IF CanRead(tree[ino], u)
                        THEN ReplyData(tree[ino].target_path)
                        ELSE ReplyError("EACCES")
        /\ tree[ino].variant # Symlink
               => readlink(CurFs, u, ino).reply = ReplyError("ENOSYS")

\* readlink was asked of a link whose target had been removed from the
\* store, and replied the link's target_path.
C21_Witness ==
    /\ request.op = "readlink"
    /\ request.ino \in DOMAIN tree
    /\ tree[request.ino].variant = Symlink
    /\ tree[request.ino].target # 0
    /\ tree[request.ino].target \notin DOMAIN tree
    /\ reply = ReplyData(tree[request.ino].target_path)

\* C22: the root inode is in the store in every reachable state, with
\* inode_num 1, path "/", name "/", parent 0 and kind directory; no request
\* removes it, renumbers it or changes its kind.
C22_RootStays ==
    /\ 1 \in DOMAIN tree
    /\ tree[1].inode_num = 1
    /\ tree[1].attrs.ino = 1
    /\ tree[1].path = RootPath
    /\ tree[1].name = RootPath
    /\ tree[1].parent = 0
    /\ tree[1].variant = Directory
    /\ tree[1].attrs.kind = Directory

\* Every child of the root was unlinked and the root is still there.
C22_Witness ==
    /\ request.op = "unlink"
    /\ reply = ReplyOk
    /\ DOMAIN tree = {1}
    /\ tree[1].contents = <<>>

\* C23: a release that follows an allocate on the same inode puts the
\* stored counter back to its value before the allocate (an inode with no
\* entry counts as 0), and after k allocates and k releases, no release
\* preceding its allocate, the counter is back where it started: the counter
\* of every inode equals the number of handles held on it.
C23_ReleaseUndoesAllocate ==
    \A ino \in 1..(cur_inode + 1) :
        LET counter(h) == IF ino \in DOMAIN h THEN h[ino] ELSE 0
            held == {e \in BagToSet(outstanding) : e.ino = ino}
            after == allocate_file_handle(file_handles, ino, TRUE, FALSE).table
        IN  /\ counter(file_handles) = BagCardinality([e \in held |-> outstanding[e]])
            /\ \A out \in release_file_handle(after, ino) :
                   ~out.panic /\ counter(out.table) = counter(file_handles)

\* Two handles were given out on one inode and both were released: its
\* counter is 0 again.
C23_Witness ==
    /\ request.op = "release"
    /\ reply = ReplyOk
    /\ clock = 4
    /\ file_handles[request.ino] = 0
    /\ outstanding = EmptyBag

\* C24: right after mount the store holds exactly the root directory
\* (inode 1) and the regular files /foo with data "bar" and /answer with
\* data "42", each with mode 0o644, uid 1000, gid 1000 and parent 1 and each
\* listed in the root's contents; from it lookup(1, "foo") replies an entry
\* with some inode X, open(X, O_RDONLY) replies a handle, and
\* read(X, handle, 0, 1024) replies "bar".
C24_InitialTreeAndRead ==
    request.op = "mount" =>
        LET files == {n \in DOMAIN tree : tree[n].variant = RegularFile}
            found == lookup(CurFs, 1, Foo).reply
            X == found.attrs.ino
            opened == open(CurFs, Owner, X, O_RDONLY)
        IN  /\ tree[1].variant = Directory /\ tree[1].path = RootPath
            /\ DOMAIN tree = {1} \cup files
            /\ {<<tree[n].path, tree[n].data>> : n \in files}
                   = {<<<<Slash>> \o Foo, Bar>>, <<<<Slash>> \o Answer, FortyTwo>>}
            /\ Cardinality(files) = 2
            /\ \A n \in files :
                   /\ tree[n].attrs.perm = 420
                   /\ tree[n].attrs.uid = 1000 /\ tree[n].attrs.gid = 1000
                   /\ tree[n].parent = 1
                   /\ \E i \in 1..Len(tree[1].contents) : tree[1].contents[i] = n
            /\ Len(tree[1].contents) = 2
            /\ found.res = "entry"
            /\ tree[X].path = <<Slash>> \o Foo
            /\ opened.reply.res = "opened"
            /\ read(opened.fs, Owner, X, opened.reply.fh, 0, 1024).reply
                   = ReplyData(Bar)

\* The scenario carried out: /foo was opened read-only as the first request
\* after mount, and a read of 1024 bytes at 0 with the handle replies "bar".
C24_Witness ==
    /\ request.op = "open" /\ request.flags = O_RDONLY
    /\ clock = 1
    /\ reply.res = "opened"
    /\ lookup(CurFs, 1, Foo).reply.attrs.ino = request.ino
    /\ read(CurFs, request.user, request.ino, reply.fh, 0, 1024).reply
           = ReplyData(Bar)

\* C25: resolve_symlink ends on every link in every reachable state: the
\* target of a link is 0 or the number of an inode made before the link (a
\* smaller number), no request changes the target of a stored link, and so
\* no target chain closes into a cycle.
C25_ResolveTerminates ==
    [][\A n \in DOMAIN tree' :
           tree'[n].variant = Symlink =>
               /\ tree'[n].target \in 0..(n - 1)
               /\ ~resolve_symlink(tree', tree'[n]).loops
               /\ n \in DOMAIN tree => /\ tree[n].variant = Symlink
                                       /\ tree[n].target = tree'[n].target]_vars

\* A link to a link was made: the walk takes two hops and ends at a file.
C25_Witness ==
    /\ request.op = "symlink"
    /\ reply.res = "entry"
    /\ \E n \in DOMAIN tree :
           /\ tree[n].variant = Symlink
           /\ tree[n].target \in DOMAIN tree
           /\ tree[tree[n].target].variant = Symlink
           /\ tree[tree[n].target].target \in DOMAIN tree
           /\ resolve_symlink(tree, tree[n]).res
                  = Some(tree[tree[tree[n].target].target])

\* C26: for a regular file its requester may read, and every offset and
\* size, read replies the bytes data[offset .. min(offset + size, len)],
\* which is the empty sequence when offset is at or beyond len.
C26_ReadRepliesSlice ==
    \A ino \in DOMAIN tree, u \in Users, r \in ReadRanges :
        (tree[ino].variant = RegularFile /\ CanRead(tree[ino], u))
            => read(CurFs, u, ino, ReadOnlyFh, r.offset, r.size).reply
                   = ReplyData(SubSeq(tree[ino].data, r.offset + 1,
                                      Min(r.offset + r.size, Len(tree[ino].data))))

\* C27: a successful write(ino, fh, off, b) on a regular file with old data
\* d and off <= len(d) leaves data = d[0..off] followed by b, sets
\* attrs.size to the new length and attrs.blocks to ceil(size / blksize),
\* and changes no other inode and no entry of the file-handle table.
C27_WriteTruncatesAndAppends ==
    \A ino \in DOMAIN tree, off \in 0..4 :
        (tree[ino].variant = RegularFile /\ off <= Len(tree[ino].data)) =>
            LET b == <<"w">>
                d == tree[ino].data
                out == write(CurFs, clock + 1, ino, WriteOnlyFh, off, b)
                new == out.fs.tree[ino]
            IN  /\ out.reply = ReplyWritten(Len(b))
                /\ new.data = [i \in 1..(off + Len(b)) |->
                                   IF i <= off THEN d[i] ELSE b[i - off]]
                /\ new.attrs.size = off + Len(b)
                /\ new.attrs.blocks * new.attrs.blksize >= new.attrs.size
                /\ (new.attrs.blocks - 1) * new.attrs.blksize < new.attrs.size
                /\ DOMAIN out.fs.tree = DOMAIN tree
                /\ \A other \in DOMAIN tree \ {ino} : out.fs.tree[other] = tree[other]
                /\ out.fs.file_handles = file_handles
                /\ out.fs.cur_inode = cur_inode

\* A write of one byte at offset 1 of a two-byte file was served: the first
\* byte is kept, the second replaced, and the size is 2.
C27_Witness ==
    /\ request.op = "write"
    /\ reply = ReplyWritten(1)
    /\ "offset" \in DOMAIN request /\ request.offset = 1
    /\ tree[request.ino].data = <<"4", "w">>
    /\ tree[request.ino].attrs.size = 2

\* C28: create makes its checks in a fixed order and replies on the first
\* that fails: parent absent -> EEXIST; a child of the parent already has
\* the path parent.path + "/" + name -> EEXIST; access mode not one of
\* O_RDONLY, O_WRONLY, O_RDWR -> EINVAL; requester without can_write on the
\* parent -> EACCES; otherwise the file is created.  So creating an existing
\* name replies EEXIST also to a requester that may not write the parent.
\* (Parents are absent inodes or directories.)
C28_CreateCheckOrder ==
    \A u \in Users, parent \in FewInoArgs, name \in Names,
       flags \in {O_RDONLY, O_WRONLY, O_RDWR, O_ACCMODE} :
        LET out == create(CurFs, clock + 1, u, parent, name, 420, flags).reply
            p == tree[parent]
            full == p.path \o (IF p.path = RootPath THEN <<>> ELSE <<Slash>>) \o name
            taken == \E i \in 1..Len(p.contents) : tree[p.contents[i]].path = full
        IN  IF parent \notin DOMAIN tree THEN out = ReplyError("EEXIST")
            ELSE p.variant = Directory =>
                   IF taken THEN out = ReplyError("EEXIST")
                   ELSE IF flags = O_ACCMODE THEN out = ReplyError("EINVAL")
                   ELSE IF ~CanWrite(p, u) THEN out = ReplyError("EACCES")
                   ELSE out.res = "created"

\* A create was answered EEXIST, and in the state it left a create of the
\* existing name foo by a requester that may not write the root, with an
\* access mode that is none of the three, is answered EEXIST as well.
C28_Witness ==
    /\ request.op = "create"
    /\ reply = ReplyError("EEXIST")
    /\ ~CanWrite(tree[1], Other)
    /\ \E i \in 1..Len(tree[1].contents) : tree[tree[1].contents[i]].name = Foo
    /\ create(CurFs, clock + 1, Other, 1, Foo, 420, O_ACCMODE).reply
           = ReplyError("EEXIST")

\* C29: unlink(p, n) by a requester that may write an existing parent p
\* with no child named n replies ok, removes no inode, leaves the parent's
\* contents as they are, and changes nothing but the parent's mtime and
\* atime.  (Parents are directories.)
C29_UnlinkAbsentName ==
    \A u \in Users, p \in DOMAIN tree, n \in Names :
        (/\ tree[p].variant = Directory
         /\ CanWrite(tree[p], u)
         /\ \A i \in 1..Len(tree[p].contents) : tree[tree[p].contents[i]].name # n)
            => LET out == unlink(CurFs, clock + 1, u, p, n)
               IN  /\ out.reply = ReplyOk
                   /\ DOMAIN out.fs.tree = DOMAIN tree
                   /\ out.fs.tree[p].contents = tree[p].contents
                   /\ out.fs.tree = [tree EXCEPT ![p].attrs.mtime = clock + 1,
                                                 ![p].attrs.atime = clock + 1]
                   /\ out.fs.cur_inode = cur_inode
                   /\ out.fs.file_handles = file_handles

\* The first request after mount was an unlink of x, a name the root does
\* not hold: all three inodes are there and the root carries the new time.
C29_Witness ==
    /\ request.op = "unlink" /\ reply = ReplyOk
    /\ request.name = NewName
    /\ clock = 1
    /\ DOMAIN tree = 1..3
    /\ tree[1].contents = <<2, 3>>
    /\ tree[1].attrs.mtime = 1 /\ tree[1].attrs.atime = 1
    /\ tree[1].attrs.ctime = 0

\* C30: readdir(dir, 0) emits "." at offset 0, ".." at offset 1, then the
\* directory's children in the order they were inserted, the child at index
\* idx at offset idx + 2 with its own inode number, kind and current name.
\* A create or symlink appends its inode to the order, a rename within the
\* directory leaves the order as it is, and an unlink takes out the entry
\* of the first child with the name and keeps the others in order.
C30_ReaddirOrder ==
    [][LET c == tree[1].contents
           d == tree'[1].contents
           dots == <<[ino |-> 1, offset |-> 0, kind |-> Directory, name |-> <<".">>],
                     [ino |-> 1, offset |-> 1, kind |-> Directory, name |-> <<".", ".">>]>>
           kids == [idx \in 1..Len(d) |->
                       [ino |-> d[idx], offset |-> (idx - 1) + 2,
                        kind |-> tree'[d[idx]].attrs.kind,
                        name |-> tree'[d[idx]].name]]
           named == {i \in 1..Len(c) : tree[c[i]].name = request'.name}
           first == CHOOSE i \in named : \A j \in named : i <= j
       IN  /\ readdir(Fs(tree', cur_inode', file_handles'), 1, 0).reply
                  = ReplyDirectory(dots \o kids)
           /\ reply'.res \in {"created", "entry"} /\ request'.op \in {"create", "symlink"}
                  => d = Append(c, cur_inode')
           /\ request'.op = "rename" => d = c
           /\ (request'.op = "unlink" /\ reply' = ReplyOk)
                  => d = IF named = {} THEN c
                         ELSE [i \in 1..(Len(c) - 1) |->
                                  IF i < first THEN c[i] ELSE c[i + 1]]
           /\ request'.op \notin {"create", "symlink", "rename", "unlink"} => d = c]_vars

\* The first of three children was renamed within the root: it is still the
\* first entry after the dots, now under its new name.
C30_Witness ==
    /\ request.op = "rename" /\ reply = ReplyOk
    /\ Len(tree[1].contents) = 3
    /\ tree[1].contents[1] = 2
    /\ tree[2].name = NewName
    /\ readdir(CurFs, 1, 0).reply.entries[3]
           = [ino |-> 2, offset |-> 2, kind |-> RegularFile, name |-> NewName]

\* C31: in every reachable state the contents of every directory holds no
\* inode number twice, and every number it holds is in the store with its
\* parent field equal to that directory; a successful create leaves the new
\* number exactly once in the parent's contents although the creation
\* helper and the handler both append it.
C31_ContentsDistinctAndOwned ==
    /\ \A d \in DOMAIN tree :
           tree[d].variant = Directory =>
               LET c == tree[d].contents
               IN  /\ \A i, j \in 1..Len(c) : c[i] = c[j] => i = j
                   /\ \A i \in 1..Len(c) : /\ c[i] \in DOMAIN tree
                                           /\ tree[c[i]].parent = d
    /\ (request.op = "create" /\ reply.res = "created")
           => Cardinality({i \in 1..Len(tree[request.parent].contents) :
                             tree[request.parent].contents[i] = cur_inode}) = 1

\* A create succeeded after a symlink and an unlink had changed the root's
\* contents: the new number is the last entry of the root.
C31_Witness ==
    /\ request.op = "create" /\ reply.res = "created"
    /\ cur_inode = 5
    /\ Len(tree[1].contents) = 3
    /\ tree[1].contents[3] = 5
    /\ \E n \in DOMAIN tree : tree[n].variant = Symlink

\* C32: in every reachable state the stored path of every inode but the
\* root is its parent's path joined with its name ("/" + name under the
\* root) and its name is the last component of its path, so the lookup by
\* path (rename, symlink) and the scan by name (lookup, unlink) find the
\* same inode; create, symlink and rename keep this.
C32_PathIsParentPlusName ==
    /\ \A i \in DOMAIN tree \ {1} :
           LET p == tree[tree[i].parent].path
               sep == IF p = RootPath THEN <<>> ELSE <<Slash>>
           IN  /\ tree[i].parent \in DOMAIN tree
               /\ tree[i].path = p \o sep \o tree[i].name
               /\ tree[i].name # <<>>
               /\ \A k \in 1..Len(tree[i].name) : tree[i].name[k] # Slash
    /\ \A d \in DOMAIN tree, n \in Names :
           tree[d].variant = Directory =>
               LET sep == IF tree[d].path = RootPath THEN <<>> ELSE <<Slash>>
               IN  get_inode_by_path(tree, tree[d].path \o sep \o n)
                       = FindChild(tree, tree[d].contents, n, 1)

\* A file was renamed after a symlink had given the root two children with
\* one name: the renamed inode is found under its new path and its new name.
C32_Witness ==
    /\ request.op = "rename" /\ reply = ReplyOk
    /\ \E a, b \in DOMAIN tree : a # b /\ tree[a].name = tree[b].name
    /\ \E i \in DOMAIN tree :
           /\ tree[i].name = request.new_name
           /\ tree[i].path = <<Slash>> \o request.new_name
           /\ get_inode_by_path(tree, tree[i].path) = Some(tree[i])
           /\ FindChild(tree, tree[1].contents, request.new_name, 1) = Some(tree[i])

============================================================================
